---- MODULE Spec2Model ----
(***************************************************************************)
(* Orders API of the campus food-ordering backend (src/index.js):          *)
(* verifyFirebaseToken, loadUserProfile, getDb and the handlers of         *)
(*   POST  /api/orders                                                     *)
(*   GET   /api/orders                                                     *)
(*   GET   /api/orders/all                                                 *)
(*   PATCH /api/orders/:id                                                 *)
(*   GET   /api/orders/restaurant/:restaurantId                            *)
(* Every request is an async handler; it is modelled as a sequence of      *)
(* atomic segments, one per await of the source.  The profile store        *)
(* (Firestore), the human-verification service and the order store         *)
(* (MongoDB) are the environment.                                          *)
(***************************************************************************)
EXTENDS Integers, Sequences, FiniteSets, TLC

VARIABLES
    profiles,          \* Firestore users/<uid>: the profile document of each uid
    secretConfigured,  \* process.env.RECAPTCHA_SECRET_KEY is set
    validatorOn,       \* the `orders` collection carries the provisioned validator
    restaurants,       \* the `restaurants` collection
    menuItems,         \* the `menuItems` collection, in insertion order
    mongoDb,           \* the module-level handle `mongoDb` is set
    clients,           \* number of MongoClient objects constructed by getDb
    orders,            \* the `orders` collection, in natural (insertion) order
    clock,             \* the server clock read by `new Date()`
    reqs,              \* the requests in flight, one per slot
    created            \* history: one entry per order inserted by POST /api/orders

vars == <<profiles, secretConfigured, validatorOn, restaurants, menuItems, mongoDb, clients,
          orders, clock, reqs, created>>

\* the configuration of the deployment, and the reference-data collections
deployment == <<secretConfigured, validatorOn>>
reference == <<restaurants, menuItems>>

----------------------------------------------------------------------------
(* Bounds of the model *)

MaxInFlight == 1      \* requests handled concurrently
MaxOrders == 2        \* size of the orders collection
MaxCreated == 1       \* orders inserted by POST /api/orders
MaxClients == 2       \* MongoClient objects constructed (bounds connection faults)
MaxClock == 3         \* last instant of the server clock
MaxMenuItems == 1     \* size of the menuItems collection
MaxRacing == 2        \* requests handled concurrently when requests race
MaxRaceCreated == 2   \* orders inserted by racing POST /api/orders requests

(* Program constants *)

DefaultLimit == 50        \* GET /api/orders: const { status, limit = 50 }
AllDefaultLimit == 1000   \* GET /api/orders/all: const { limit = 1000 }

----------------------------------------------------------------------------
(* Values *)

NONE == "none"                       \* undefined / null / field absent
Campuses == {"C1", "C2"}
RestaurantIds == {"R1", "R2"}
Uids == {"user", "admin", "super", "manager", "manager2", "guest", "nobody"}
Slots == 1..MaxInFlight
NoLimit == 0 - 1                     \* the `limit` query parameter is not given

Min(a, b) == IF a < b THEN a ELSE b

\* JavaScript truthiness of a string-or-absent value
Truthy(v) == v # NONE /\ v # ""

----------------------------------------------------------------------------
(* Profiles (documents of the Firestore `users` collection) *)

NoDoc == [exists |-> FALSE, role |-> NONE, campusId |-> NONE, restaurantId |-> NONE]

Profile(role, campusId, restaurantId) ==
    [exists |-> TRUE, role |-> role, campusId |-> campusId, restaurantId |-> restaurantId]

\* the profile store the model starts from: one uid per kind of profile
InitialProfiles ==
    [u \in Uids |->
        CASE u = "user" -> Profile("user", "C1", NONE)
          [] u = "admin" -> Profile("campusAdmin", "C1", NONE)
          [] u = "super" -> Profile("superAdmin", NONE, NONE)
          [] u = "manager" -> Profile("restaurantManager", "C1", "R1")
          [] u = "manager2" -> Profile("restaurantManager", "C1", "R2")
          [] u = "guest" -> Profile("guest", "C1", NONE)
          [] OTHER -> NoDoc]

\* the uids whose campus assignment is changed while the server runs
Reassignable == {"user"}

isSuperAdminOff(profile) == FALSE

isSuperAdminOrCampusAdmin(profile) == profile.role \in {"superAdmin", "campusAdmin"}

isSuperAdmin(profile) == profile.role = "superAdmin"

isCampusAdmin(profile) == profile.role = "campusAdmin"

isRestaurantManager(profile) == profile.role = "restaurantManager"

RecognizedRoleAny(profile) == TRUE

RecognizedRole(profile) ==
    profile.role \in {"user", "campusAdmin", "superAdmin", "restaurantManager"}

----------------------------------------------------------------------------
(* Cart values and order documents *)

Item(rid, name, price, quantity) ==
    [restaurantId |-> rid, restaurantName |-> name, price |-> price, quantity |-> quantity]

\* A JSON value of a cart field: absent, a string, or an array of line items.
\* A string produced by JSON.stringify keeps the items it encodes in `items`.
Absent == [kind |-> "absent", items |-> <<>>, text |-> ""]
Str(t) == [kind |-> "str", items |-> <<>>, text |-> t]
Arr(s) == [kind |-> "arr", items |-> s, text |-> ""]

\* JSON.stringify(v): undefined for undefined, else the string encoding
Stringify(v) ==
    IF v.kind = "absent" THEN Absent
    ELSE IF v.kind = "arr" THEN [kind |-> "str", items |-> v.items, text |-> "json"]
    ELSE [kind |-> "str", items |-> <<>>, text |-> "json-string"]

CartR1 == <<Item("R1", "N1", 2, 1)>>
CartR2 == <<Item("R2", "N2", 3, 2)>>
CartMixed == <<Item("R1", "N1", 2, 1), Item("R2", "N2", 3, 2)>>
\* a cart whose items of two restaurants carry the same restaurantName
CartShared == <<Item("R1", "N1", 2, 1), Item("R2", "N1", 3, 2)>>

\* The (cartItems, cartItemsFormatted) pairs a create-order body carries
\* and the restaurantNames list sent with them (<<>>: not sent)
CartInputs ==
    { [cartItems |-> Absent, cartItemsFormatted |-> Absent, restaurantNames |-> <<>>],
      [cartItems |-> Str("1x burger"), cartItemsFormatted |-> Absent,
       restaurantNames |-> <<"N1", " N1 ", " ">>],
      [cartItems |-> Arr(CartR1), cartItemsFormatted |-> Absent, restaurantNames |-> <<>>],
      [cartItems |-> Arr(CartMixed), cartItemsFormatted |-> Str("fmt"),
       restaurantNames |-> <<"N2">>] }

OidOf(h) == [t |-> "oid", v |-> h]
StrId(s) == [t |-> "str", v |-> s]
NoId == [t |-> "none", v |-> ""]

\* 24-hex-digit strings, the strings `new ObjectId(s)` accepts
HexPool == <<"h1", "h2", "h3", "h4", "h5", "h6">>
HexStrings == {HexPool[i] : i \in 1..Len(HexPool)}
IdParams == {"x1", "h1", "zz"}

NoOrder ==
    [_id |-> NoId, campusId |-> NONE, status |-> NONE, cartItems |-> Absent,
     cartItemsArray |-> <<>>, hasRestaurantNames |-> FALSE, restaurantNames |-> <<>>,
     itemTotal |-> 0, nulls |-> {}, createdAt |-> 0, via |-> "none"]

\* Documents written to the collection before this API (legacy data)
Legacy1 ==
    [_id |-> StrId("x1"), campusId |-> "C1", status |-> "pending",
     cartItems |-> Arr(CartR1), cartItemsArray |-> <<>>,
     hasRestaurantNames |-> FALSE, restaurantNames |-> <<>>, itemTotal |-> 2, nulls |-> {},
     createdAt |-> 1, via |-> "legacy"]
Legacy2 ==
    [_id |-> OidOf("h1"), campusId |-> "C2", status |-> "pending",
     cartItems |-> Arr(CartR2), cartItemsArray |-> <<>>,
     hasRestaurantNames |-> FALSE, restaurantNames |-> <<>>, itemTotal |-> 6, nulls |-> {},
     createdAt |-> 2, via |-> "legacy"]
Legacy3 ==
    [_id |-> StrId("x2"), campusId |-> NONE, status |-> "accepted",
     cartItems |-> Str("2x tea"), cartItemsArray |-> <<>>,
     hasRestaurantNames |-> FALSE, restaurantNames |-> <<>>, itemTotal |-> 6, nulls |-> {},
     createdAt |-> 2, via |-> "legacy"]

InitialStores == { <<>>, <<Legacy1>>, <<Legacy1, Legacy2>>, <<Legacy3, Legacy1>> }

RangeOf(s) == {s[i] : i \in 1..Len(s)}

\* the restaurant ids of the line items of an array value
ItemRestaurants(items) == {items[i].restaurantId : i \in 1..Len(items)}

----------------------------------------------------------------------------
(* Requests *)

MandatoryFields == {"firstName", "phone", "gender", "grandTotal"}

\* the fields of a create-order body the handler defaults with `|| null`
OrNullFields ==
    {"universityName", "campusName", "lastName", "accountTitle", "bankName",
     "screenshotURL", "specialInstruction"}
\* ... and with `?? null`
NullishFields == {"persons", "deliveryCharge", "itemTotal"}
\* universityId and email fall back to the profile and to the identity first
FallbackFields == {"universityId", "email"}
OptionalFields == OrNullFields \cup NullishFields \cup FallbackFields

\* the itemTotal a client sends
SentItemTotal == 9

\* A request body.  POST /api/orders reads campusId, token, missing, absent
\* and the cart fields; the reference-data handlers read campusId, name,
\* restaurantId and price.  `status` is a status field a client puts into the
\* body of POST /api/orders, which the handler does not destructure.
NoBody ==
    [campusId |-> NONE, token |-> NONE, missing |-> {}, absent |-> {},
     cartItems |-> Absent, cartItemsFormatted |-> Absent, restaurantNames |-> <<>>,
     name |-> NONE, restaurantId |-> NONE, price |-> 0, status |-> NONE]

\* Bodies of POST /api/orders: campusId, recaptchaToken ("good" is a token the
\* verification service accepts, "bad" one it rejects), the mandatory fields
\* that are absent, and the cart fields.
AllBodies ==
    {[NoBody EXCEPT !.campusId = c, !.token = t, !.missing = m, !.absent = a,
                    !.cartItems = ci.cartItems,
                    !.cartItemsFormatted = ci.cartItemsFormatted,
                    !.restaurantNames = ci.restaurantNames] :
        c \in Campuses \cup {NONE}, t \in {NONE, "good", "bad"},
        m \in {{}} \cup {{f} : f \in MandatoryFields},
        a \in {{}, OptionalFields} \cup {{f} : f \in OptionalFields},
        ci \in CartInputs}

\* bodies with a string cart or a structured cart, every optional field given,
\* all mandatory fields given or gender absent
CreateBodies ==
    {b \in AllBodies : b.cartItems.kind # "absent" /\ b.cartItemsFormatted.kind = "absent"
                        /\ b.missing \in {{}, {"gender"}} /\ b.absent = {}}

\* bodies without a token that name a campus and carry a structured cart;
\* any one mandatory field may be absent, and no optional field, one of
\* three, or all of them
ValidateBodies ==
    {b \in AllBodies : /\ b.cartItems.kind = "arr" /\ b.cartItemsFormatted.kind = "absent"
                        /\ b.campusId # NONE /\ b.token = NONE
                        /\ b.absent \in {{}, {"lastName"}, {"universityName"}, {"persons"},
                                         OptionalFields}}

\* complete bodies without a token whose structured cart has items of two
\* restaurants
RoundTripBodies ==
    {[NoBody EXCEPT !.campusId = c, !.cartItems = Arr(ci)] :
        c \in Campuses, ci \in {CartMixed, CartShared}}

\* complete bodies without a token that list restaurant names: names that
\* repeat and need trimming, blank names among others, and blank names alone
NamesBodies ==
    {[NoBody EXCEPT !.campusId = "C1", !.cartItems = Arr(CartR1), !.restaurantNames = ns] :
        ns \in {<<"N1", " N1 ", " ">>, <<"N2", "N2">>, <<" ">>}}

\* bodies without a token that name a campus and give every mandatory field
PlainBodies == {b \in CreateBodies : b.campusId # NONE /\ b.token = NONE /\ b.missing = {}}

\* Authorization header: "ok" = "Bearer <token the identity provider accepts>"
Headers == {"ok", "absent", "noBearer", "rejected"}

PatchStatuses == {NONE, "accepted"}
ListStatuses == {NONE, "accepted"}
Limits == {NoLimit, 0, 1}

NoRestaurant == [_id |-> NoId, name |-> NONE, campusId |-> NONE]

Idle ==
    [pc |-> "idle", kind |-> NONE, uid |-> "nobody", hdr |-> NONE, profile |-> NoDoc,
     body |-> NoBody, param |-> NONE, status |-> NONE, limit |-> NoLimit,
     code |-> 0, out |-> <<>>, doc |-> NoOrder,
     \* history of the request, not read by the handlers:
     called |-> FALSE,           \* the verification service was called
     calls |-> 0,                \* ... that many times
     verdict |-> NONE,           \* ... and the call "passed" or "failed"
     threw |-> NONE,             \* a store call threw: a "fault" or a "validation" error
     profileAtBuild |-> NoDoc,   \* the stored profile when orderDoc was built
     touched |-> NoOrder,        \* the document updateOne modified, as it was
     seen |-> <<>>,              \* the collection as the request's query read it
     looked |-> FALSE,           \* the restaurant lookup of the request is over
     lookedIn |-> {},            \* ... the restaurants stored at that instant
     found |-> NoRestaurant]     \* ... and the restaurant it resolved to

NewRequest(kind, uid, hdr, body, param, status, limit) ==
    [Idle EXCEPT !.pc = "auth", !.kind = kind, !.uid = uid, !.hdr = hdr, !.body = body,
                 !.param = param, !.status = status, !.limit = limit]

\* res.status(code).json(...): the request is answered
Respond(r, code) == [r EXCEPT !.pc = "done", !.code = code]

RespondWith(r, code, docs) == [r EXCEPT !.pc = "done", !.code = code, !.out = docs]

----------------------------------------------------------------------------
(* The order store (MongoDB driver operations) *)

\* the filters pushed by `try { new ObjectId(id) } catch {}` and `{ _id: id }`
IdFiltersStringOnly(id) == {StrId(id)}

IdFilters(id) ==
    (IF id \in HexStrings THEN {OidOf(id)} ELSE {}) \cup {StrId(id)}

\* { 'cartItems.restaurantId': rid }: an element of the array `cartItems` has
\* that restaurantId; an undefined rid is sent as null, which matches a
\* document without such a path
MatchCartRestaurant(o, rid) ==
    IF rid = NONE
    THEN o.cartItems.kind # "arr" \/ o.cartItems.items = <<>>
    ELSE o.cartItems.kind = "arr" /\ rid \in ItemRestaurants(o.cartItems.items)

\* { campusId: c }
MatchCampus(o, c) == o.campusId = c

\* { status: st } when the query gives one
MatchStatus(o, st) == st = NONE \/ o.status = st

RECURSIVE SortByCreatedAtDesc(_)
\* .sort({ createdAt: -1 })
SortByCreatedAtDesc(s) ==
    IF s = <<>> THEN <<>>
    ELSE LET i == CHOOSE i \in 1..Len(s) :
                    \A j \in 1..Len(s) :
                        \/ s[j].createdAt < s[i].createdAt
                        \/ (s[j].createdAt = s[i].createdAt /\ j >= i)
             rest == [k \in 1..(Len(s) - 1) |-> IF k < i THEN s[k] ELSE s[k + 1]]
         IN <<s[i]>> \o SortByCreatedAtDesc(rest)

\* .limit(n): a limit of 0 is no limit
Limit(s, n) == IF n = 0 THEN s ELSE SubSeq(s, 1, Min(n, Len(s)))

\* Number(limit) with the handler's default
LimitOf(r, default) == IF r.limit = NoLimit THEN default ELSE r.limit

\* the first 24-hex identifier no stored ObjectId uses
NewObjectIdFixed(store) == OidOf(HexPool[1])

NewObjectId(store) ==
    LET used == {store[i]._id.v : i \in {j \in 1..Len(store) : store[j]._id.t = "oid"}}
        k == CHOOSE k \in 1..Len(HexPool) :
                 HexPool[k] \notin used /\ \A j \in 1..(k - 1) : HexPool[j] \in used
    IN OidOf(HexPool[k])

\* the `restaurants` collection the order endpoints run against: R1 is
\* stored (under a legacy string _id), R2 is not
RestaurantDocs == {[_id |-> StrId("R1"), name |-> "N1", campusId |-> "C1"]}

\* restaurants collections of a store that is not fully migrated: legacy
\* string _ids (one of them a 24-hex string) and object identifiers
RestaurantStores ==
    { RestaurantDocs,
      {[_id |-> StrId("h1"), name |-> "N2", campusId |-> "C1"]},
      {[_id |-> OidOf("h2"), name |-> "N3", campusId |-> "C2"],
       [_id |-> StrId("R1"), name |-> "N1", campusId |-> "C1"]} }

\* the restaurant ids requests carry
RestaurantParams == {"R1", "h1", "h2"}

\* the profiles of a deployment whose second manager runs restaurant h1
RestaurantProfiles ==
    [InitialProfiles EXCEPT !["manager2"] = Profile("restaurantManager", "C1", "h1")]

\* the body of PATCH /api/restaurants/:id: a new name
RenameBody == [NoBody EXCEPT !.name = "N9"]

\* bodies of POST /api/menu-items: complete ones, and one without a name
MenuItemBodies ==
    {[NoBody EXCEPT !.restaurantId = rid, !.campusId = c, !.name = "M1", !.price = 5] :
        rid \in RestaurantParams, c \in Campuses}
    \cup {[NoBody EXCEPT !.restaurantId = "h2", !.campusId = "C2", !.price = 5]}

----------------------------------------------------------------------------
(* POST /api/orders: the order document *)

\* String(x).trim()
Trim(x) == IF x = " N1 " THEN "N1" ELSE IF x = " " THEN "" ELSE x

RECURSIVE Dedup(_)
\* Array.from(new Set(xs)): first occurrences, in order
Dedup(xs) ==
    IF xs = <<>> THEN <<>>
    ELSE LET front == Dedup(SubSeq(xs, 1, Len(xs) - 1))
             last == xs[Len(xs)]
         IN IF last \in RangeOf(front) THEN front ELSE Append(front, last)

\* Array.isArray(restaurantNames) && restaurantNames.length > 0: the document
\* gets a restaurantNames field
HasRestaurantNames(names) == names # <<>>

\* restaurantNames.map(x => String(x).trim()).filter(Boolean), deduplicated
\* (<<>> also when the field is left out)
RestaurantNamesOf(names) ==
    IF names = <<>> THEN <<>>
    ELSE Dedup(SelectSeq([i \in 1..Len(names) |-> Trim(names[i])], LAMBDA x : x # ""))

\* cartItemsFormatted || (typeof cartItems === 'string' ? cartItems : JSON.stringify(cartItems))
CartItemsString(body) ==
    IF body.cartItemsFormatted.kind # "absent" THEN body.cartItemsFormatted
    ELSE IF body.cartItems.kind = "str" THEN body.cartItems
    ELSE Stringify(body.cartItems)

\* the optional fields orderDoc holds as null: `x || null` and `x ?? null`
\* of an absent x (the profiles of the model carry no universityId and the
\* identity no e-mail address to fall back to)
NullsOf(body) == {f \in OptionalFields : f \in body.absent}

\* status: 'pending', the last field of orderDoc
InitialStatusOfBody(body) == IF body.status # NONE THEN body.status ELSE "pending"

InitialStatus(body) == "pending"

OrderDoc(r, now) ==
    [_id |-> NoId,
     campusId |-> r.body.campusId,
     status |-> InitialStatus(r.body),
     cartItems |-> CartItemsString(r.body),
     cartItemsArray |-> IF r.body.cartItems.kind = "arr" THEN r.body.cartItems.items ELSE <<>>,
     hasRestaurantNames |-> HasRestaurantNames(r.body.restaurantNames),
     restaurantNames |-> RestaurantNamesOf(r.body.restaurantNames),
     itemTotal |-> IF "itemTotal" \in r.body.absent THEN 0 ELSE SentItemTotal,
     nulls |-> NullsOf(r.body),
     createdAt |-> now,
     via |-> "post"]

\* the values the `status` enum of ordersValidator admits (null is NONE)
StatusEnum ==
    {"pending", "accepted", "preparing", "ready", "out-for-delivery", "delivered",
     "cancelled", NONE}

\* the fields of ordersValidator whose bsonType does not admit null
NotNullable == {"universityName", "campusName", "persons", "deliveryCharge", "itemTotal"}

\* ordersValidator on one document: a field that holds null must admit null,
\* cartItems is a string or null, status is of the enum.  (The mandatory
\* fields are present when the handler builds the document; the values a
\* client gives are taken to be of the type the schema names.)
OrdersValidator(o) ==
    /\ o.nulls \cap NotNullable = {}
    /\ o.cartItems.kind \in {"str", "absent"}
    /\ o.status \in StatusEnum

----------------------------------------------------------------------------
(* The handlers, as the code that runs between two awaits *)

\* if (recaptchaToken && process.env.RECAPTCHA_SECRET_KEY)
ShouldVerifyTokenOnly(body, secret) == Truthy(body.token)

ShouldVerify(body, secret) == Truthy(body.token) /\ secret

\* the verification call succeeds: the service is reached and reports success
VerificationPasses(token, reachable) == reachable /\ token = "good"

\* the campus restriction of POST /api/orders: 0 when it passes, else the status
CampusCheckOff(profile, campusId) == 0

CampusCheck400(profile, campusId) ==
    IF ~Truthy(profile.campusId) THEN 403
    ELSE IF ~Truthy(campusId) \/ campusId # profile.campusId THEN 400
    ELSE 0

CampusCheck(profile, campusId) ==
    IF ~Truthy(profile.campusId) THEN 403
    ELSE IF ~Truthy(campusId) \/ campusId # profile.campusId THEN 403
    ELSE 0

\* if (!firstName || !phone || !gender || !grandTotal): 0 when it passes
FieldCheckGenderOptional(body) == IF body.missing \ {"gender"} # {} THEN 400 ELSE 0

FieldCheck(body) == IF body.missing # {} THEN 400 ELSE 0

\* POST /api/orders from the campus restriction to the call of insertOne
CreateChecksFieldsFirst(r, now) ==
    IF FieldCheck(r.body) # 0 THEN Respond(r, FieldCheck(r.body))
    ELSE IF CampusCheck(r.profile, r.body.campusId) # 0
    THEN Respond(r, CampusCheck(r.profile, r.body.campusId))
    ELSE [r EXCEPT !.pc = "insert", !.doc = OrderDoc(r, now)]

CreateChecks(r, now) ==
    IF CampusCheck(r.profile, r.body.campusId) # 0
    THEN Respond(r, CampusCheck(r.profile, r.body.campusId))
    ELSE IF FieldCheck(r.body) # 0 THEN Respond(r, FieldCheck(r.body))
    ELSE [r EXCEPT !.pc = "insert", !.doc = OrderDoc(r, now)]

\* POST /api/orders when the verification call has returned or thrown
AfterVerificationIgnored(r, ok, now) == CreateChecks(r, now)

AfterVerification(r, ok, now) == IF ok THEN CreateChecks(r, now) ELSE Respond(r, 400)

\* POST /api/orders after `await getDb()`
CreateAfterGetDb(r, secret, now) ==
    IF ShouldVerify(r.body, secret)
    THEN [r EXCEPT !.pc = "recaptcha", !.called = TRUE, !.calls = @ + 1]
    ELSE CreateChecks(r, now)

\* insertOne(doc) on the collection
InsertReplacing(store, doc) == <<doc>>

Insert(store, doc) == Append(store, doc)

\* { $set: { status } } on one document
SetStatusIfPending(o, status) == IF o.status = "pending" THEN [o EXCEPT !.status = status] ELSE o

SetStatusAndCampus(o, status) == [o EXCEPT !.status = status, !.campusId = NONE]

SetStatus(o, status) == [o EXCEPT !.status = status]

\* the scope filter of PATCH /api/orders/:id, on one document
PatchFilterIdOnly(r, o) == o._id \in IdFilters(r.param)

PatchFilter(r, o) ==
    /\ o._id \in IdFilters(r.param)
    /\ IF isCampusAdmin(r.profile)
       THEN MatchCampus(o, r.profile.campusId)
       ELSE MatchCartRestaurant(o, r.profile.restaurantId)

\* PATCH /api/orders/:id after `await getDb()`
PatchAfterGetDb(r) ==
    IF ~Truthy(r.status) THEN Respond(r, 400)
    ELSE IF isCampusAdmin(r.profile) \/ isRestaurantManager(r.profile)
    THEN [r EXCEPT !.pc = "update"]
    ELSE Respond(r, 403)

\* the filter of GET /api/orders, on one document
ListFilterAll(r, o) == MatchStatus(o, r.status)

ListFilter(r, o) ==
    /\ isSuperAdmin(r.profile) \/ MatchCampus(o, r.profile.campusId)
    /\ MatchStatus(o, r.status)

\* req.userProfile.restaurantId !== req.params.restaurantId, negated
OwnRestaurantAny(profile, rid) == TRUE

OwnRestaurant(profile, rid) == profile.restaurantId = rid

\* what a handler does before it calls getDb: 0 to go on, else the status
EntryCheck(r) ==
    CASE r.kind = "listAll" -> IF ~isSuperAdmin(r.profile) THEN 403 ELSE 0
      [] r.kind = "patch" -> IF isSuperAdmin(r.profile) THEN 403 ELSE 0
      [] r.kind = "listRestaurant" ->
            IF ~isRestaurantManager(r.profile) THEN 403
            ELSE IF ~OwnRestaurant(r.profile, r.param) THEN 403
            ELSE 0
      [] OTHER -> 0

\* history: the restaurant lookup of the request ends, resolved to d
Resolved(r, d) == [r EXCEPT !.looked = TRUE, !.lookedIn = restaurants, !.found = d]

\* findOne on the restaurants collection with the given _id values
RestaurantById(ids) ==
    IF \E d \in restaurants : d._id \in ids
    THEN CHOOSE d \in restaurants : d._id \in ids
    ELSE NoRestaurant

\* GET /api/restaurants/:id after getDb: `new ObjectId(id)` throws inside the
\* try, or findOne({ _id: new ObjectId(id) }) is awaited
GetRestaurantAfterGetDb(r) ==
    IF r.param \in HexStrings THEN [r EXCEPT !.pc = "findByOid"]
    ELSE [r EXCEPT !.pc = "findByString"]

\* PATCH and DELETE /api/restaurants/:id after getDb
RestaurantWriteAfterGetDb(r) ==
    IF r.param \notin HexStrings THEN Resolved(Respond(r, 400), NoRestaurant)
    ELSE [r EXCEPT !.pc = "findExisting"]

\* ... once findOne({ _id }) has returned
RestaurantWriteChecks(r, existing) ==
    IF existing = NoRestaurant THEN Respond(r, 404)
    ELSE IF isCampusAdmin(r.profile) /\ existing.campusId # r.profile.campusId
    THEN Respond(r, 403)
    ELSE [r EXCEPT !.pc = "writeRestaurant"]

\* POST /api/menu-items after getDb, to the lookup of the restaurant
MenuItemAfterGetDb(r) ==
    IF ~Truthy(r.body.restaurantId) \/ ~Truthy(r.body.campusId) \/ ~Truthy(r.body.name)
       \/ r.body.price <= 0
    THEN Respond(r, 400)
    ELSE IF isCampusAdmin(r.profile) /\ r.body.campusId # r.profile.campusId
    THEN Respond(r, 403)
    ELSE IF r.body.restaurantId \notin HexStrings
    THEN Resolved(Respond(r, 400), NoRestaurant)
    ELSE [r EXCEPT !.pc = "findMenuRestaurant"]

\* ... once findOne({ _id }) has returned
MenuItemChecks(r, restaurant) ==
    IF restaurant = NoRestaurant THEN Respond(r, 404)
    ELSE IF restaurant.campusId # r.body.campusId THEN Respond(r, 400)
    ELSE [r EXCEPT !.pc = "insertMenuItem"]

\* a handler from the return of getDb to its next await (or its answer)
AfterGetDb(r, secret, now) ==
    CASE r.kind = "create" -> CreateAfterGetDb(r, secret, now)
      [] r.kind = "patch" -> PatchAfterGetDb(r)
      [] r.kind = "listRestaurant" -> [r EXCEPT !.pc = "findRestaurant"]
      [] r.kind = "getRestaurant" -> GetRestaurantAfterGetDb(r)
      [] r.kind \in {"patchRestaurant", "deleteRestaurant"} -> RestaurantWriteAfterGetDb(r)
      [] r.kind = "createMenuItem" -> MenuItemAfterGetDb(r)
      [] OTHER -> [r EXCEPT !.pc = "find"]

\* history: the stored profile at the instant orderDoc is built
Built(r, r2, store) ==
    IF r2.pc = "insert" /\ r.pc # "insert"
    THEN [r2 EXCEPT !.profileAtBuild = store[r.uid]] ELSE r2

\* a handler from its entry to its first await inside or after getDb
HandlerStart(r, db, secret, now) ==
    IF EntryCheck(r) # 0 THEN Respond(r, EntryCheck(r))
    ELSE IF db THEN AfterGetDb(r, secret, now)
    ELSE [r EXCEPT !.pc = "connect"]

\* the documents GET /api/orders and GET /api/orders/all answer with
ListResult(r, store) ==
    IF r.kind = "listAll"
    THEN Limit(SortByCreatedAtDesc(store), LimitOf(r, AllDefaultLimit))
    ELSE Limit(SortByCreatedAtDesc(SelectSeq(store, LAMBDA o : ListFilter(r, o))),
               LimitOf(r, DefaultLimit))

\* the restaurant GET /api/orders/restaurant/:restaurantId looks up
RestaurantOf(rid) == {d \in restaurants : d._id \in IdFilters(rid)}

RECURSIVE SumItems(_)
\* restaurantItems.reduce((sum, item) => sum + (item.price * item.quantity), 0)
SumItems(items) ==
    IF items = <<>> THEN 0
    ELSE SumItems(SubSeq(items, 1, Len(items) - 1))
            + items[Len(items)].price * items[Len(items)].quantity

\* the orders of a restaurant: those with cartItemsArray keep the line items
\* the handler's filter selects and get their total as itemsTotal, the others
\* keep cartItems and get `order.itemTotal || 0`
RestaurantResult(r, store, name) ==
    LET hit(o) == \/ r.param \in ItemRestaurants(o.cartItemsArray)
                  \/ name \in RangeOf(o.restaurantNames)
        mine(it) == it.restaurantId = r.param \/ it.restaurantName = name
        view(o) == IF o.cartItemsArray # <<>>
                   THEN [itemsTotal |-> SumItems(SelectSeq(o.cartItemsArray, mine))]
                        @@ [o EXCEPT !.cartItems = Arr(SelectSeq(o.cartItemsArray, mine))]
                   ELSE [itemsTotal |-> o.itemTotal] @@ o
        found == Limit(SortByCreatedAtDesc(SelectSeq(store, hit)), LimitOf(r, AllDefaultLimit))
    IN [i \in 1..Len(found) |-> view(found[i])]

----------------------------------------------------------------------------
(* Initial state and actions *)

InitWith(profs, secrets, validators, collections, stores, slots) ==
    /\ profiles = profs
    /\ secretConfigured \in secrets
    /\ validatorOn \in validators
    /\ restaurants \in collections
    /\ menuItems = <<>>
    /\ mongoDb = FALSE
    /\ clients = 0
    /\ orders \in stores
    /\ clock = 2
    /\ reqs = [s \in slots |-> Idle]
    /\ created = <<>>

\* the instants `new Date()` may return: time stands still or moves on
Now == {t \in {clock, clock + 1} : t <= MaxClock}

\* creations that may still reach insertOne
PendingCreates == Cardinality({s \in DOMAIN reqs : reqs[s].kind = "create" /\ reqs[s].pc # "done"})

\* Express hands a request to verifyFirebaseToken, which runs to
\* `await admin.auth().verifyIdToken(token)` or answers 401
Arrive(s, r) ==
    /\ reqs[s].pc = "idle"
    /\ reqs' = [reqs EXCEPT ![s] = IF r.hdr \in {"absent", "noBearer"}
                                    THEN Respond(r, 401) ELSE r]
    /\ UNCHANGED <<profiles, deployment, reference, mongoDb, clients, orders, clock, created>>

\* a request without a usable credential; nothing else of it is ever read
ReceiveUnauthenticated ==
    \E s \in DOMAIN reqs, u \in Uids, h \in Headers \ {"ok"},
       k \in {"create", "list", "listAll", "patch", "listRestaurant"} :
        Arrive(s, NewRequest(k, u, h, NoBody, NONE, NONE, NoLimit))

ReceiveCreateFrom(uids, bodies, max) ==
    \E s \in DOMAIN reqs, u \in uids, b \in bodies :
        /\ Len(orders) + PendingCreates < MaxOrders
        /\ Len(created) + PendingCreates < max
        /\ Arrive(s, NewRequest("create", u, "ok", b, NONE, NONE, NoLimit))

ReceiveCreate(bodies) == ReceiveCreateFrom(Uids, bodies, MaxCreated)

ReceiveList ==
    \E s \in DOMAIN reqs, u \in Uids, st \in ListStatuses, l \in Limits :
        Arrive(s, NewRequest("list", u, "ok", NoBody, NONE, st, l))

ReceiveListAll ==
    \E s \in DOMAIN reqs, u \in Uids, l \in Limits :
        Arrive(s, NewRequest("listAll", u, "ok", NoBody, NONE, NONE, l))

ReceivePatchFrom(uids, ids, statuses) ==
    \E s \in DOMAIN reqs, u \in uids, id \in ids, st \in statuses :
        Arrive(s, NewRequest("patch", u, "ok", NoBody, id, st, NoLimit))

ReceivePatch(statuses) == ReceivePatchFrom(Uids, IdParams, statuses)

ReceiveListRestaurant(rids) ==
    \E s \in DOMAIN reqs, u \in Uids, rid \in rids, l \in Limits :
        Arrive(s, NewRequest("listRestaurant", u, "ok", NoBody, rid, NONE, l))

\* verifyIdToken returns or throws; on success next() runs loadUserProfile to
\* `await firestore.collection('users').doc(uid).get()`
VerifyIdToken(s) ==
    /\ reqs[s].pc = "auth"
    /\ reqs' = [reqs EXCEPT ![s] = IF reqs[s].hdr = "rejected"
                                    THEN Respond(reqs[s], 401)
                                    ELSE [reqs[s] EXCEPT !.pc = "profile"]]
    /\ UNCHANGED <<profiles, deployment, reference, mongoDb, clients, orders, clock, created>>

\* the profile document arrives; loadUserProfile checks it and next() runs the
\* handler up to its first await (inside getDb when no handle is set)
LoadUserProfile(s) ==
    /\ reqs[s].pc = "profile"
    /\ LET doc == profiles[reqs[s].uid]
           r == [reqs[s] EXCEPT !.profile = doc]
       IN IF ~doc.exists \/ ~RecognizedRole(doc)
          THEN /\ reqs' = [reqs EXCEPT ![s] = Respond(reqs[s], 403)]
               /\ UNCHANGED <<clients, clock>>
          ELSE \E now \in Now :
                 LET r2 == HandlerStart(r, mongoDb, secretConfigured, now)
                 IN /\ reqs' = [reqs EXCEPT ![s] = Built(r, r2, profiles)]
                    /\ clients' = IF r2.pc = "connect" THEN clients + 1 ELSE clients
                    /\ clock' = IF r2.pc = "insert" THEN now ELSE clock
    /\ UNCHANGED <<profiles, deployment, reference, mongoDb, orders, created>>

\* mongoClient.connect() returns: getDb sets mongoDb and the handler goes on
Connect(s) ==
    /\ reqs[s].pc = "connect"
    /\ mongoDb' = TRUE
    /\ \E now \in Now :
         LET r2 == AfterGetDb(reqs[s], secretConfigured, now)
         IN /\ reqs' = [reqs EXCEPT ![s] = Built(reqs[s], r2, profiles)]
            /\ clock' = IF r2.pc = "insert" THEN now ELSE clock
    /\ UNCHANGED <<profiles, deployment, reference, clients, orders, created>>

\* the verification service answers (success only for a token it accepts) or
\* cannot be reached
Recaptcha(s) ==
    /\ reqs[s].pc = "recaptcha"
    /\ \E reachable \in BOOLEAN, now \in Now :
         LET ok == VerificationPasses(reqs[s].body.token, reachable)
             r2 == AfterVerification(reqs[s], ok, now)
         IN /\ reqs' = [reqs EXCEPT ![s] =
                          [Built(reqs[s], r2, profiles) EXCEPT
                              !.verdict = IF ok THEN "passed" ELSE "failed"]]
            /\ clock' = IF r2.pc = "insert" THEN now ELSE clock
    /\ UNCHANGED <<profiles, deployment, reference, mongoDb, clients, orders, created>>

\* insertOne commits and the handler answers 201, or the document fails the
\* validator of the collection, insertOne throws and the catch answers 500
InsertOne(s) ==
    /\ reqs[s].pc = "insert"
    /\ LET doc == [reqs[s].doc EXCEPT !._id = NewObjectId(orders)]
       IN IF validatorOn /\ ~OrdersValidator(doc)
          THEN /\ reqs' = [reqs EXCEPT ![s] =
                             [Respond(reqs[s], 500) EXCEPT !.threw = "validation"]]
               /\ UNCHANGED <<orders, created>>
          ELSE /\ orders' = Insert(orders, doc)
               /\ created' = Append(created, [id |-> doc._id,
                                              profileCampus |-> reqs[s].profile.campusId])
               /\ reqs' = [reqs EXCEPT ![s] =
                             [RespondWith(reqs[s], 201, <<doc>>) EXCEPT !.doc = doc]]
    /\ UNCHANGED <<profiles, deployment, reference, mongoDb, clients, clock>>

\* find(...).sort(...).limit(...).toArray() of the two list endpoints
Find(s) ==
    /\ reqs[s].pc = "find"
    /\ reqs' = [reqs EXCEPT ![s] =
                  [RespondWith(reqs[s], 200, ListResult(reqs[s], orders)) EXCEPT
                      !.seen = orders]]
    /\ UNCHANGED <<profiles, deployment, reference, mongoDb, clients, orders, clock, created>>

\* restaurants.findOne, then orders.find, of the restaurant-scoped listing
FindRestaurant(s) ==
    /\ reqs[s].pc = "findRestaurant"
    /\ IF RestaurantOf(reqs[s].param) = {}
       THEN reqs' = [reqs EXCEPT ![s] = Resolved(Respond(reqs[s], 404), NoRestaurant)]
       ELSE \E d \in RestaurantOf(reqs[s].param) :
              reqs' = [reqs EXCEPT ![s] = Resolved([reqs[s] EXCEPT !.pc = "findOrders"], d)]
    /\ UNCHANGED <<profiles, deployment, reference, mongoDb, clients, orders, clock, created>>

FindRestaurantOrders(s) ==
    /\ reqs[s].pc = "findOrders"
    /\ reqs' = [reqs EXCEPT ![s] =
                  [RespondWith(reqs[s], 200,
                               RestaurantResult(reqs[s], orders, reqs[s].found.name))
                      EXCEPT !.seen = orders]]
    /\ UNCHANGED <<profiles, deployment, reference, mongoDb, clients, orders, clock, created>>

\* updateOne(filter, { $set: { status } }) commits; under the validator an
\* update whose result fails the schema throws
UpdateOne(s) ==
    /\ reqs[s].pc = "update"
    /\ LET hits == {i \in 1..Len(orders) : PatchFilter(reqs[s], orders[i])}
       IN IF hits = {}
          THEN /\ reqs' = [reqs EXCEPT ![s] = [Respond(reqs[s], 404) EXCEPT !.seen = orders]]
               /\ UNCHANGED orders
          ELSE \E i \in hits :
                 LET doc == SetStatus(orders[i], reqs[s].status)
                 IN IF validatorOn /\ ~OrdersValidator(doc)
                    THEN /\ reqs' = [reqs EXCEPT ![s] =
                                       [Respond(reqs[s], 500) EXCEPT !.threw = "validation",
                                                                     !.seen = orders]]
                         /\ UNCHANGED orders
                    ELSE /\ orders' = [orders EXCEPT ![i] = doc]
                         /\ reqs' = [reqs EXCEPT ![s] =
                                       [reqs[s] EXCEPT !.pc = "findOne",
                                                       !.touched = orders[i],
                                                       !.seen = orders]]
    /\ UNCHANGED <<profiles, deployment, reference, mongoDb, clients, clock, created>>

\* findOne(filter) returns and the handler answers
FindOne(s) ==
    /\ reqs[s].pc = "findOne"
    /\ LET hits == {i \in 1..Len(orders) : PatchFilter(reqs[s], orders[i])}
       IN IF hits = {}
          THEN reqs' = [reqs EXCEPT ![s] = Respond(reqs[s], 404)]
          ELSE \E i \in hits :
                 reqs' = [reqs EXCEPT ![s] = RespondWith(reqs[s], 200, <<orders[i]>>)]
    /\ UNCHANGED <<profiles, deployment, reference, mongoDb, clients, orders, clock, created>>

\* GET /api/restaurants/:id, a route without middleware: the handler runs to
\* its first await
ReceiveGetRestaurant ==
    \E s \in DOMAIN reqs, id \in RestaurantParams :
        /\ reqs[s].pc = "idle"
        /\ LET r == [Idle EXCEPT !.kind = "getRestaurant", !.param = id]
               r2 == HandlerStart(r, mongoDb, secretConfigured, clock)
           IN /\ reqs' = [reqs EXCEPT ![s] = r2]
              /\ clients' = IF r2.pc = "connect" THEN clients + 1 ELSE clients
        /\ UNCHANGED <<profiles, deployment, reference, mongoDb, orders, clock, created>>

\* PATCH and DELETE /api/restaurants/:id
ReceiveRestaurantWrite ==
    \E s \in DOMAIN reqs, u \in Uids, id \in RestaurantParams,
       k \in {"patchRestaurant", "deleteRestaurant"} :
        Arrive(s, NewRequest(k, u, "ok", RenameBody, id, NONE, NoLimit))

\* menu-item creations that may still reach insertOne
PendingMenuItems ==
    Cardinality({s \in DOMAIN reqs : reqs[s].kind = "createMenuItem" /\ reqs[s].pc # "done"})

\* POST /api/menu-items
ReceiveCreateMenuItem ==
    \E s \in DOMAIN reqs, u \in Uids, b \in MenuItemBodies :
        /\ Len(menuItems) + PendingMenuItems < MaxMenuItems
        /\ Arrive(s, NewRequest("createMenuItem", u, "ok", b, NONE, NONE, NoLimit))

\* GET /api/restaurants/:id: findOne by object identifier, or by string when
\* the id does not parse (or the first findOne threw), returns
FindById(s) ==
    /\ reqs[s].pc \in {"findByOid", "findByString"}
    /\ LET d == RestaurantById(IF reqs[s].pc = "findByOid"
                               THEN {OidOf(reqs[s].param)} ELSE {StrId(reqs[s].param)})
       IN reqs' = [reqs EXCEPT ![s] =
                     Resolved(IF d = NoRestaurant THEN Respond(reqs[s], 404)
                              ELSE RespondWith(reqs[s], 200, <<d>>), d)]
    /\ UNCHANGED <<profiles, deployment, reference, mongoDb, clients, orders, clock, created>>

\* a findOne inside an inner try throws: GET /api/restaurants/:id goes on to
\* the string query, POST /api/menu-items answers 400
FaultCaught(s) ==
    /\ reqs[s].pc \in {"findByOid", "findMenuRestaurant"}
    /\ reqs' = [reqs EXCEPT ![s] =
                  IF reqs[s].pc = "findByOid"
                  THEN [reqs[s] EXCEPT !.pc = "findByString", !.threw = "fault"]
                  ELSE [Respond(reqs[s], 400) EXCEPT !.threw = "fault"]]
    /\ UNCHANGED <<profiles, deployment, reference, mongoDb, clients, orders, clock, created>>

\* PATCH and DELETE /api/restaurants/:id: findOne({ _id }) returns
FindExisting(s) ==
    /\ reqs[s].pc = "findExisting"
    /\ LET d == RestaurantById({OidOf(reqs[s].param)})
       IN reqs' = [reqs EXCEPT ![s] = Resolved(RestaurantWriteChecks(reqs[s], d), d)]
    /\ UNCHANGED <<profiles, deployment, reference, mongoDb, clients, orders, clock, created>>

\* findOneAndUpdate({ _id }, { $set: update }) or deleteOne({ _id }) commits
WriteRestaurant(s) ==
    /\ reqs[s].pc = "writeRestaurant"
    /\ LET d == RestaurantById({OidOf(reqs[s].param)})
           d2 == [d EXCEPT !.name = reqs[s].body.name]
       IN IF reqs[s].kind = "deleteRestaurant"
          THEN /\ restaurants' = restaurants \ {d}
               /\ reqs' = [reqs EXCEPT ![s] = Respond(reqs[s], 204)]
          ELSE IF d = NoRestaurant
          THEN /\ reqs' = [reqs EXCEPT ![s] = Respond(reqs[s], 500)]
               /\ UNCHANGED restaurants
          ELSE /\ restaurants' = (restaurants \ {d}) \cup {d2}
               /\ reqs' = [reqs EXCEPT ![s] = RespondWith(reqs[s], 200, <<d2>>)]
    /\ UNCHANGED <<profiles, deployment, menuItems, mongoDb, clients, orders, clock, created>>

\* POST /api/menu-items: findOne({ _id }) on restaurants returns
FindMenuRestaurant(s) ==
    /\ reqs[s].pc = "findMenuRestaurant"
    /\ LET d == RestaurantById({OidOf(reqs[s].body.restaurantId)})
       IN reqs' = [reqs EXCEPT ![s] = Resolved(MenuItemChecks(reqs[s], d), d)]
    /\ UNCHANGED <<profiles, deployment, reference, mongoDb, clients, orders, clock, created>>

\* POST /api/menu-items: insertOne commits and the handler answers 201
InsertMenuItem(s) ==
    /\ reqs[s].pc = "insertMenuItem"
    /\ menuItems' = Append(menuItems, [restaurantId |-> reqs[s].body.restaurantId,
                                        campusId |-> reqs[s].body.campusId,
                                        name |-> reqs[s].body.name])
    /\ reqs' = [reqs EXCEPT ![s] = Respond(reqs[s], 201)]
    /\ UNCHANGED <<profiles, deployment, restaurants, mongoDb, clients, orders, clock, created>>

\* an awaited call of the profile store or of the order store throws: the
\* catch block answers 500
Fault(s) ==
    /\ reqs[s].pc \in {"profile", "connect", "insert", "find", "findRestaurant",
                       "findOrders", "update", "findOne", "findByString", "findExisting",
                       "writeRestaurant", "insertMenuItem"}
    /\ reqs[s].pc = "connect" => clients < MaxClients
    /\ reqs' = [reqs EXCEPT ![s] = [Respond(reqs[s], 500) EXCEPT !.threw = "fault"]]
    /\ UNCHANGED <<profiles, deployment, reference, mongoDb, clients, orders, clock, created>>

\* the answer is sent and the request is over
Close(s) ==
    /\ reqs[s].pc = "done"
    /\ reqs' = [reqs EXCEPT ![s] = Idle]
    /\ UNCHANGED <<profiles, deployment, reference, mongoDb, clients, orders, clock, created>>

\* the profile store is edited: a user is assigned to another campus
ProfileChange ==
    /\ \E u \in Reassignable, c \in Campuses :
         /\ c # profiles[u].campusId
         /\ profiles' = [profiles EXCEPT ![u].campusId = c]
    /\ UNCHANGED <<deployment, reference, mongoDb, clients, orders, clock, reqs, created>>

\* the steps every request takes
Serve(s) ==
    \/ VerifyIdToken(s)
    \/ LoadUserProfile(s)
    \/ Connect(s)
    \/ Fault(s)
    \/ Close(s)

Init == InitWith(InitialProfiles, {FALSE}, {FALSE}, {RestaurantDocs}, InitialStores, Slots)

Next ==
    \/ ReceiveUnauthenticated
    \/ ReceiveCreate(PlainBodies)
    \/ ReceiveList
    \/ ReceiveListAll
    \/ ReceivePatch(PatchStatuses)
    \/ ReceiveListRestaurant(RestaurantIds)
    \/ \E s \in DOMAIN reqs :
          \/ Serve(s)
          \/ InsertOne(s)
          \/ Find(s)
          \/ FindRestaurant(s)
          \/ FindRestaurantOrders(s)
          \/ UpdateOne(s)
          \/ FindOne(s)
    \/ ProfileChange

Spec == Init /\ [][Next]_vars

(* All endpoints, on a deployment without a verification secret *)

(* Order creation alone, with every body, with and without a configured secret *)

InitCreate ==
    InitWith(InitialProfiles, BOOLEAN, {FALSE}, {RestaurantDocs}, InitialStores, Slots)

NextCreate ==
    \/ ReceiveUnauthenticated
    \/ ReceiveCreate(CreateBodies)
    \/ \E s \in DOMAIN reqs :
          \/ Serve(s)
          \/ Recaptcha(s)
          \/ InsertOne(s)
    \/ ProfileChange

SpecCreate == InitCreate /\ [][NextCreate]_vars

\* POST /api/orders against a collection with or without the provisioned
\* validator, with bodies that leave mandatory and optional fields out
InitValidate ==
    InitWith(InitialProfiles, {FALSE}, BOOLEAN, {RestaurantDocs}, InitialStores, Slots)

NextValidate ==
    \/ ReceiveCreate(ValidateBodies)
    \/ \E s \in DOMAIN reqs :
          \/ Serve(s)
          \/ InsertOne(s)

SpecValidate == InitValidate /\ [][NextValidate]_vars

\* requests that race: the same user submits the same order twice, and two
\* operators update the status of the same order
RaceSlots == 1..MaxRacing

RaceBody == [NoBody EXCEPT !.campusId = "C1", !.cartItems = Arr(CartR1)]

RaceStatuses == {"accepted", "delivered"}

InitRace ==
    InitWith(InitialProfiles, {FALSE}, {FALSE}, {RestaurantDocs}, {<<>>, <<Legacy1>>}, RaceSlots)

NextRace ==
    \/ ReceiveCreateFrom({"user"}, {RaceBody}, MaxRaceCreated)
    \/ ReceivePatchFrom({"admin", "manager"}, {"x1"}, RaceStatuses)
    \/ \E s \in DOMAIN reqs :
          \/ Serve(s)
          \/ InsertOne(s)
          \/ UpdateOne(s)
          \/ FindOne(s)

SpecRace == InitRace /\ [][NextRace]_vars

\* the life of an order: created by a user (whose body may carry a status of
\* its own), then moved from status to status by the operators, on a
\* collection with or without the provisioned validator
LifecycleBodies == {[RaceBody EXCEPT !.status = st] : st \in {NONE, "delivered"}}

LifecycleStatuses == {"accepted", "cancelled", "archived"}

InitLifecycle ==
    InitWith(InitialProfiles, {FALSE}, BOOLEAN, {RestaurantDocs}, {<<>>, <<Legacy1>>}, Slots)

NextLifecycle ==
    \/ ReceiveCreateFrom({"user"}, LifecycleBodies, MaxCreated)
    \/ ReceivePatchFrom({"admin", "manager"}, {"x1", "h1"}, LifecycleStatuses)
    \/ \E s \in DOMAIN reqs :
          \/ Serve(s)
          \/ InsertOne(s)
          \/ UpdateOne(s)
          \/ FindOne(s)

SpecLifecycle == InitLifecycle /\ [][NextLifecycle]_vars

\* status updates on a collection in which a legacy order has as its string
\* _id the 24 hex digits of the object identifier of another order, both of
\* campus C1 and with items of R1
DualIdStores ==
    { <<[Legacy1 EXCEPT !._id = OidOf("h1")], [Legacy1 EXCEPT !._id = StrId("h1"), !.createdAt = 2]>>,
      <<[Legacy1 EXCEPT !._id = StrId("h1")], [Legacy1 EXCEPT !._id = OidOf("h1"), !.createdAt = 2]>> }

InitDualId ==
    InitWith(InitialProfiles, {FALSE}, {FALSE}, {RestaurantDocs}, DualIdStores, Slots)

NextDualId ==
    \/ ReceivePatchFrom({"admin", "manager", "manager2"}, {"h1", "x1"}, RaceStatuses)
    \/ \E s \in DOMAIN reqs :
          \/ Serve(s)
          \/ UpdateOne(s)
          \/ FindOne(s)

SpecDualId == InitDualId /\ [][NextDualId]_vars

\* orders created with structured carts and read back through the
\* restaurant-scoped listing
NextRoundTrip ==
    \/ ReceiveCreate(RoundTripBodies \cup NamesBodies)
    \/ ReceiveListRestaurant(RestaurantIds)
    \/ \E s \in DOMAIN reqs :
          \/ Serve(s)
          \/ InsertOne(s)
          \/ FindRestaurant(s)
          \/ FindRestaurantOrders(s)

SpecRoundTrip == Init /\ [][NextRoundTrip]_vars

\* the handlers that look a restaurant up by id, against restaurants
\* collections holding legacy string _ids and object identifiers
InitRestaurants ==
    InitWith(RestaurantProfiles, {FALSE}, {FALSE}, RestaurantStores, {<<>>, <<Legacy1>>}, Slots)

NextRestaurants ==
    \/ ReceiveGetRestaurant
    \/ ReceiveRestaurantWrite
    \/ ReceiveCreateMenuItem
    \/ ReceiveListRestaurant(RestaurantParams)
    \/ \E s \in DOMAIN reqs :
          \/ Serve(s)
          \/ FindRestaurant(s)
          \/ FindRestaurantOrders(s)
          \/ FindById(s)
          \/ FaultCaught(s)
          \/ FindExisting(s)
          \/ WriteRestaurant(s)
          \/ FindMenuRestaurant(s)
          \/ InsertMenuItem(s)

SpecRestaurants == InitRestaurants /\ [][NextRestaurants]_vars

----------------------------------------------------------------------------
(* Properties *)

Requests == {reqs[s] : s \in DOMAIN reqs}
Answered(kind) == {r \in Requests : r.kind = kind /\ r.pc = "done"}
Stored(id) == {o \in RangeOf(orders) : o._id = id}

IsSortedDesc(docs) ==
    \A k, l \in 1..Len(docs) : k < l => docs[k].createdAt >= docs[l].createdAt

\* the order has a line item of restaurant rid, in either cart representation
ContainsItemOf(o, rid) ==
    \/ rid \in ItemRestaurants(o.cartItemsArray)
    \/ o.cartItems.kind = "arr" /\ rid \in ItemRestaurants(o.cartItems.items)

\* the body names no campus or another campus than the loaded profile
CampusMismatch(r) == r.body.campusId = NONE \/ r.body.campusId # r.profile.campusId

\* C1 as stated: every order inserted by POST /api/orders has the campusId the
\* submitting user's stored profile has at the instant the order is created
\* (orderDoc built, createdAt taken), whatever profile changes interleave.
C1_CampusOfStoredProfile ==
    \A r \in Requests :
        (r.kind = "create" /\ r.pc \in {"insert", "done"} /\ r.doc # NoOrder)
            => r.doc.campusId = r.profileAtBuild.campusId

\* C1 amended: every order inserted by POST /api/orders has, in every later
\* state, the campusId of the profile that loadUserProfile read for the
\* creating request, and that campusId is set.
C1_CampusOfLoadedProfile ==
    \A i \in 1..Len(created) :
        /\ created[i].profileCampus \in Campuses
        /\ Stored(created[i].id) # {}
        /\ \A o \in Stored(created[i].id) :
               o.via = "post" /\ o.campusId = created[i].profileCampus

\* C1 witness: an order was inserted although the user's stored profile was
\* moved to another campus between the profile load and the creation.
C1_Witness ==
    \E r \in Answered("create") :
        /\ r.code = 201
        /\ created # <<>>
        /\ r.profileAtBuild.campusId # r.profile.campusId
        /\ r.doc.campusId = r.profile.campusId

\* C2 as stated: an authenticated create request whose campusId is absent or
\* differs from the profile's is always answered 403, whatever its other
\* fields (a request that ends in a fault of the store, 500, left aside).
C2_MismatchAlways403 ==
    \A r \in Answered("create") :
        (r.profile.exists /\ CampusMismatch(r) /\ r.code # 500) => r.code = 403

\* C2 amended: such a request never inserts an order, and it is answered 403
\* unless the verification call was made and failed (400) or a store call
\* threw (500); missing mandatory fields never turn the 403 into a 400.
C2_MismatchNeverInserted ==
    \A r \in Requests :
        (r.kind = "create" /\ r.profile.exists /\ CampusMismatch(r)) =>
            /\ r.pc # "insert" /\ r.doc = NoOrder
            /\ r.pc = "done" => \/ r.code = 403
                                \/ r.code = 400 /\ r.called
                                \/ r.code = 500

\* C2 witness: a mismatching request that also lacks a mandatory field and
\* carries a token is answered 403.
C2_Witness ==
    \E r \in Answered("create") :
        /\ r.profile.exists /\ CampusMismatch(r)
        /\ r.body.missing # {} /\ r.body.token # NONE
        /\ r.body.campusId \in Campuses
        /\ r.code = 403

\* C3: a PATCH /api/orders/:id made with a superAdmin profile changes no order
\* and is answered 403, for every id and every body.
C3_SuperAdminNeverUpdates ==
    \A r \in Requests :
        (r.kind = "patch" /\ r.profile.role = "superAdmin") =>
            /\ r.touched = NoOrder
            /\ r.pc \in {"done"}
            /\ r.code = 403

\* C3 witness: a superAdmin PATCH without a status, for the id of a stored
\* order, answered 403.
C3_Witness ==
    \E r \in Answered("patch") :
        /\ r.profile.role = "superAdmin"
        /\ r.status = NONE
        /\ \E o \in RangeOf(orders) : o._id \in IdFilters(r.param)
        /\ r.code = 403

\* C4: the restaurant-scoped listing answers 403 and returns nothing to a
\* restaurantManager asking for another restaurant than the assigned one, and
\* to every other role.
C4_OtherRestaurantForbidden ==
    \A r \in Requests :
        (/\ r.kind = "listRestaurant"
         /\ r.profile.exists
         /\ (r.profile.role # "restaurantManager" \/ r.profile.restaurantId # r.param)) =>
            /\ r.pc = "done" /\ r.code = 403
            /\ r.out = <<>> /\ r.seen = <<>>

\* C4 witness: a restaurantManager asks for a stored restaurant that is not
\* the one assigned, while an order with an item of that restaurant is stored.
C4_Witness ==
    \E r \in Answered("listRestaurant") :
        /\ r.profile.role = "restaurantManager"
        /\ r.profile.restaurantId # r.param
        /\ RestaurantOf(r.param) # {}
        /\ \E o \in RangeOf(orders) : ContainsItemOf(o, r.param)
        /\ r.code = 403

\* C5 as stated: a restaurantManager of restaurant R who sends a status for
\* the id of an order created by POST /api/orders with a structured cart that
\* has an item of R is answered 200 and the status is stored.
C5_ManagerUpdatesOwnOrder ==
    \A r \in Answered("patch") :
        \A o \in RangeOf(orders) :
            (/\ r.profile.role = "restaurantManager"
             /\ r.status # NONE
             /\ r.code # 500
             /\ o.via = "post"
             /\ o._id \in IdFilters(r.param)
             /\ r.profile.restaurantId \in ItemRestaurants(o.cartItemsArray)) =>
                r.code = 200 /\ o.status = r.status

\* C6: a status update changes an order only when it is issued by a
\* campusAdmin of the order's campus or by a restaurantManager of a restaurant
\* with an item in the order; a profile of role user changes none.
C6_UpdateOnlyInScope ==
    \A r \in Requests :
        r.touched # NoOrder =>
            \/ r.profile.role = "campusAdmin" /\ r.touched.campusId = r.profile.campusId
            \/ /\ r.profile.role = "restaurantManager"
               /\ ContainsItemOf(r.touched, r.profile.restaurantId)

\* C6 witness: a restaurantManager has changed an order with an item of the
\* assigned restaurant while an order without such an item is stored.
C6_Witness ==
    \E r \in Answered("patch") :
        /\ r.profile.role = "restaurantManager"
        /\ r.touched # NoOrder
        /\ r.code = 200
        /\ \E o \in RangeOf(orders) : ~ContainsItemOf(o, r.profile.restaurantId)

\* C7 as stated: GET /api/orders never returns an order to a request made
\* with a user or restaurantManager profile.
C7_ListOnlyForAdmins ==
    \A r \in Answered("list") :
        r.profile.role \in {"user", "restaurantManager"} => r.out = <<>>

\* the orders of campus c with the status the query asks for, as read
InScope(r, c) ==
    {i \in 1..Len(r.seen) : r.seen[i].campusId = c /\ (r.status = NONE \/ r.seen[i].status = r.status)}

\* what C8 states apart from the truncation: only orders of the profile's
\* campus (and of the status asked for), newest first, none left out in
\* favour of an older one
CampusListing(r) ==
    /\ \A k \in 1..Len(r.out) : \E i \in InScope(r, r.profile.campusId) : r.out[k] = r.seen[i]
    /\ \A k, l \in 1..Len(r.out) : k # l => r.out[k] # r.out[l]
    /\ IsSortedDesc(r.out)
    /\ \A i \in InScope(r, r.profile.campusId) :
           \/ r.seen[i] \in RangeOf(r.out)
           \/ \A k \in 1..Len(r.out) : r.out[k].createdAt >= r.seen[i].createdAt

\* C8 as stated: a campusAdmin of campus C1 receives only orders of C1,
\* newest first, at most as many as the requested limit.
C8_CampusListTruncated ==
    \A r \in Answered("list") :
        (r.profile.role = "campusAdmin" /\ r.code = 200) =>
            /\ CampusListing(r)
            /\ Len(r.out) <= LimitOf(r, DefaultLimit)

\* C8 amended: as stated for a positive limit; a limit of 0 is no limit, the
\* answer then holds every order of the campus.
C8_CampusListLimit ==
    \A r \in Answered("list") :
        (r.profile.role = "campusAdmin" /\ r.code = 200) =>
            /\ CampusListing(r)
            /\ Len(r.out) =
                 IF LimitOf(r, DefaultLimit) = 0
                 THEN Cardinality(InScope(r, r.profile.campusId))
                 ELSE Min(LimitOf(r, DefaultLimit), Cardinality(InScope(r, r.profile.campusId)))

\* C8 witness: a campusAdmin listing with a status filter and limit 1 returns
\* an order of its campus while an order of another campus is stored.
C8_Witness ==
    \E r \in Answered("list") :
        /\ r.profile.role = "campusAdmin" /\ r.code = 200
        /\ r.limit = 1 /\ r.status # NONE
        /\ r.out # <<>>
        /\ \E i \in 1..Len(r.seen) :
               r.seen[i].campusId # r.profile.campusId /\ r.seen[i].status = r.status

\* C9: GET /api/orders/all answers a superAdmin with the orders of all
\* campuses and every other role with 403 and no order.
C9_ListAllSuperAdminOnly ==
    \A r \in Requests :
        (r.kind = "listAll" /\ r.profile.exists) =>
            IF r.profile.role = "superAdmin"
            THEN (r.pc = "done" /\ r.code = 200) =>
                    /\ IsSortedDesc(r.out)
                    /\ \A k \in 1..Len(r.out) : r.out[k] \in RangeOf(r.seen)
                    /\ Len(r.out) = IF LimitOf(r, AllDefaultLimit) = 0 THEN Len(r.seen)
                                    ELSE Min(LimitOf(r, AllDefaultLimit), Len(r.seen))
            ELSE r.pc = "done" /\ r.code = 403 /\ r.out = <<>> /\ r.seen = <<>>

\* C9 witness: a superAdmin receives orders of two campuses.
C9_Witness ==
    \E r \in Answered("listAll") :
        /\ r.profile.role = "superAdmin" /\ r.code = 200
        /\ \E k, l \in 1..Len(r.out) : r.out[k].campusId # r.out[l].campusId

\* C10 as stated: an order is persisted without the verification call only
\* when no token was supplied and no secret is configured, and an order with
\* a token the service rejects is never persisted.
C10_TokenAlwaysChecked ==
    \A r \in Answered("create") :
        r.code = 201 =>
            /\ r.body.token # "bad"
            /\ ~r.called => (r.body.token = NONE /\ ~secretConfigured)

\* C10 amended: the verification call is made exactly when a token is
\* supplied and a secret is configured (it is skipped when either is
\* missing); with a secret configured, an order with a token the service
\* rejects is never persisted.
C10_CheckedIffTokenAndSecret ==
    \A r \in Requests :
        r.kind = "create" =>
            /\ r.called => (r.body.token # NONE /\ secretConfigured)
            /\ (r.pc = "insert" \/ (r.pc = "done" /\ r.code = 201)) =>
                 /\ r.called <=> (r.body.token # NONE /\ secretConfigured)
                 /\ secretConfigured => r.body.token # "bad"

\* C10 witness: an order with a verified token is persisted on a deployment
\* with a secret.
C10_Witness ==
    \E r \in Answered("create") :
        r.code = 201 /\ r.called /\ r.body.token = "good" /\ secretConfigured

\* the request got past identity, profile, verification and the campus check
\* and no call of the store failed for a reason outside the request
ReachesValidation(r) ==
    /\ r.profile.exists /\ ~CampusMismatch(r)
    /\ r.verdict # "failed" /\ r.threw # "fault"

\* C11: when the verification call of a create request reports failure or
\* throws, the request is answered 400, no order document is built or
\* inserted, and the call was made once; no request calls the service twice.
C11_VerificationFailureIsFinal ==
    \A r \in Requests :
        /\ r.calls <= 1
        /\ (r.kind = "create" /\ r.verdict = "failed") =>
              /\ r.pc = "done" /\ r.code = 400
              /\ r.doc = NoOrder
              /\ r.calls = 1

\* C11 witness: a request that would otherwise be inserted carries a token
\* the service accepts, the service cannot be reached, the answer is 400.
C11_Witness ==
    \E r \in Answered("create") :
        /\ r.verdict = "failed" /\ r.body.token = "good"
        /\ r.profile.exists /\ ~CampusMismatch(r) /\ r.body.missing = {}
        /\ r.code = 400

\* C12: a create request in which firstName, phone, gender or grandTotal is
\* absent never builds or inserts an order, and when it gets as far as the
\* field check it is answered 400.
C12_MissingFieldRejected ==
    \A r \in Requests :
        (r.kind = "create" /\ r.body.missing # {}) =>
            /\ r.pc # "insert" /\ r.doc = NoOrder /\ r.code # 201
            /\ (r.pc = "done" /\ ReachesValidation(r)) => r.code = 400

\* C12 witness: an order submitted with gender omitted, from the right
\* campus, to a collection with the validator, is answered 400.
C12_Witness ==
    \E r \in Answered("create") :
        /\ r.body.missing = {"gender"} /\ ReachesValidation(r)
        /\ validatorOn
        /\ r.code = 400 /\ created = <<>>

\* C13 as stated: a create request that passes verification and the campus
\* check and gives the four mandatory fields is answered 201 whichever
\* optional fields are absent, also under the provisioned validator.
C13_OptionalNeverRejects ==
    \A r \in Answered("create") :
        (ReachesValidation(r) /\ r.body.missing = {}) => r.code = 201

\* the orders a step leaves different from what they were
Changed == {i \in 1..Len(orders) : i > Len(orders') \/ orders'[i] # orders[i]}

\* C14: a step of a status update changes at most one order, and of that
\* order only the status, which becomes the status of the request; it adds
\* and removes none; a status update that ends with 400, 403 or 404 has
\* changed nothing.
C14_UpdateSetsStatusOnly ==
    [][\A s \in DOMAIN reqs :
          (reqs[s].kind = "patch" /\ reqs'[s] # reqs[s]) =>
              /\ Len(orders') = Len(orders)
              /\ Cardinality(Changed) <= 1
              /\ \A i \in Changed :
                     /\ orders'[i] = [orders[i] EXCEPT !.status = reqs[s].status]
                     /\ reqs'[s].touched = orders[i]
              /\ (reqs'[s].pc = "done" /\ reqs'[s].code \in {400, 403, 404}) =>
                     orders' = orders /\ reqs'[s].touched = NoOrder]_vars

\* C14 witness: an update of a legacy order has been answered 200; the stored
\* order differs from what it was in its status alone, and another order is
\* stored beside it.
C14_Witness ==
    \E r \in Answered("patch") :
        /\ r.code = 200 /\ r.touched # NoOrder /\ r.touched._id.t = "str"
        /\ r.touched.status # r.status
        /\ Len(orders) > 1
        /\ \E o \in Stored(r.touched._id) : o = [r.touched EXCEPT !.status = r.status]

\* the order is in the scope the status update gives the profile
Scoped(r, o) ==
    IF r.profile.role = "campusAdmin" THEN o.campusId = r.profile.campusId
    ELSE /\ r.profile.role = "restaurantManager"
         /\ o.cartItems.kind = "arr"
         /\ r.profile.restaurantId \in ItemRestaurants(o.cartItems.items)

\* the in-scope orders whose _id is the given string, or the object
\* identifier the string encodes
ScopedById(r) ==
    {o \in RangeOf(r.seen) :
        /\ Scoped(r, o)
        /\ \/ o._id = StrId(r.param)
           \/ r.param \in HexStrings /\ o._id = OidOf(r.param)}

\* C15: a status update by a campusAdmin or restaurantManager whose store
\* calls do not throw updates an in-scope order whose _id is the given string
\* or the object identifier it encodes, when there is one, and otherwise is
\* answered 404 and changes nothing.
C15_DualIdLookup ==
    \A r \in Answered("patch") :
        (/\ r.profile.role \in {"campusAdmin", "restaurantManager"}
         /\ r.status # NONE /\ r.threw = NONE) =>
            IF ScopedById(r) = {}
            THEN r.code = 404 /\ r.touched = NoOrder
            ELSE r.code = 200 /\ r.touched \in ScopedById(r)

\* C15 witness: an order stored under an object identifier has been updated
\* through the string encoding of that identifier, with a legacy order
\* stored beside it.
C15_Witness ==
    \E r \in Answered("patch") :
        /\ r.code = 200 /\ r.touched._id = OidOf(r.param)
        /\ \E o \in RangeOf(orders) : o._id.t = "str"

\* the id a restaurant lookup is given
LookupId(r) == IF r.kind = "createMenuItem" THEN r.body.restaurantId ELSE r.param

\* C16 as stated: whenever the lookup of a restaurant by id is over (in the
\* restaurant-scoped listing, GET, PATCH and DELETE /api/restaurants/:id and
\* menu-item creation) and a restaurant is stored under the given string as
\* its _id, the lookup has resolved to a stored restaurant.
C16_RestaurantFoundUnderEitherId ==
    \A r \in Requests :
        (r.looked /\ \E d \in r.lookedIn : d._id = StrId(LookupId(r))) =>
            r.found \in r.lookedIn

\* the line items of restaurant rid in a structured cart
ItemsOf(items, rid) == SelectSeq(items, LAMBDA it : it.restaurantId = rid)

\* C17 as stated: the entry the restaurant-scoped listing for R returns for
\* an order created with a structured cart has as cartItems the line items
\* of R and no other, and as itemsTotal the sum of price*quantity over them.
C17_RoundTripOwnItems ==
    \A r \in Answered("listRestaurant") :
        r.code = 200 =>
            \A k \in 1..Len(r.out) :
                (r.out[k].via = "post" /\ r.out[k].cartItemsArray # <<>>) =>
                    /\ r.out[k].cartItems = Arr(ItemsOf(r.out[k].cartItemsArray, r.param))
                    /\ r.out[k].itemsTotal = SumItems(ItemsOf(r.out[k].cartItemsArray, r.param))

\* a create request that nothing but the store can stop
ValidCreate(r) ==
    /\ r.kind = "create" /\ ReachesValidation(r) /\ r.body.missing = {}

\* C18: every valid create request that is answered without a store error is
\* answered 201 and has its own order in the store, also when an identical
\* request of the same user is or was in flight; stored ids are pairwise
\* distinct, and the store holds one posted order per successful creation.
C18_NeverDeduplicated ==
    /\ \A i, j \in 1..Len(orders) : i # j => orders[i]._id # orders[j]._id
    /\ Cardinality({i \in 1..Len(orders) : orders[i].via = "post"}) = Len(created)
    /\ \A s \in DOMAIN reqs :
          (ValidCreate(reqs[s]) /\ reqs[s].pc = "done" /\ reqs[s].threw = NONE) =>
              /\ reqs[s].code = 201
              /\ reqs[s].doc \in RangeOf(orders)
              /\ \A s2 \in DOMAIN reqs \ {s} :
                     (reqs[s2].kind = "create" /\ reqs[s2].code = 201) =>
                         reqs[s2].doc._id # reqs[s].doc._id

\* C18 witness: two requests of the same user with the same body, created at
\* the same instant, are both answered 201 and two orders are stored.
C18_Witness ==
    \E s, s2 \in DOMAIN reqs :
        /\ s # s2
        /\ reqs[s].kind = "create" /\ reqs[s2].kind = "create"
        /\ reqs[s].code = 201 /\ reqs[s2].code = 201
        /\ reqs[s].uid = reqs[s2].uid /\ reqs[s].body = reqs[s2].body
        /\ reqs[s].doc.createdAt = reqs[s2].doc.createdAt
        /\ reqs[s].doc._id # reqs[s2].doc._id
        /\ {reqs[s].doc, reqs[s2].doc} \subseteq RangeOf(orders)

\* the status update of slot s commits its write in this step
Commits(s) == reqs[s].kind = "patch" /\ reqs[s].pc = "update" /\ reqs'[s].pc = "findOne"

\* C19: the write of a status update commits whatever other updates are in
\* flight and leaves its own status in the order; the stored status changes
\* in no other way, so it is always the status of the update that committed
\* last; an update that finds its order is not rejected, and one that has
\* committed is answered 200.
C19_LastWriterWins ==
    [][/\ \A s \in DOMAIN reqs :
            /\ Commits(s) =>
                  \E i \in 1..Len(orders) :
                      orders[i] = reqs'[s].touched /\ orders'[i].status = reqs[s].status
            /\ (reqs[s].kind = "patch" /\ reqs[s].pc = "update" /\ reqs'[s].pc = "done"
                   /\ reqs'[s].threw = NONE) =>
                  reqs'[s].code = 404 /\ ScopedById(reqs'[s]) = {}
            /\ (reqs[s].kind = "patch" /\ reqs[s].pc = "findOne" /\ reqs'[s].pc = "done"
                   /\ reqs'[s].threw = NONE) =>
                  reqs'[s].code = 200
       /\ \A i \in 1..Len(orders) :
            orders'[i].status # orders[i].status =>
                \E s \in DOMAIN reqs : Commits(s) /\ orders'[i].status = reqs[s].status
      ]_vars

\* C19 witness: two updates of the same order with different statuses have
\* both been answered 200; the second read the status the first had written
\* and the order holds the status of the second.
C19_Witness ==
    \E s, s2 \in DOMAIN reqs :
        /\ s # s2
        /\ reqs[s].kind = "patch" /\ reqs[s2].kind = "patch"
        /\ reqs[s].code = 200 /\ reqs[s2].code = 200
        /\ reqs[s].touched._id = reqs[s2].touched._id
        /\ reqs[s].status # reqs[s2].status
        /\ reqs[s].touched.status = "pending"
        /\ reqs[s2].touched.status = reqs[s].status
        /\ \A o \in Stored(reqs[s].touched._id) : o.status = reqs[s2].status

\* C20: a step removes no order and changes no _id; it changes a stored
\* order only in its status and only as a step of a status update; it adds
\* at most one order, as the insert of a create request; a step of a list
\* request leaves the store as it is.
C20_StoreOnlyGrows ==
    [][/\ Len(orders') >= Len(orders)
       /\ \A i \in 1..Len(orders) :
            /\ orders'[i]._id = orders[i]._id
            /\ orders'[i] # orders[i] =>
                  \E s \in DOMAIN reqs :
                      /\ reqs[s].kind = "patch" /\ reqs'[s] # reqs[s]
                      /\ orders'[i] = [orders[i] EXCEPT !.status = reqs[s].status]
       /\ Len(orders') > Len(orders) =>
            /\ Len(orders') = Len(orders) + 1
            /\ \E s \in DOMAIN reqs : reqs[s].kind = "create" /\ reqs[s].pc = "insert"
                                        /\ reqs'[s].code = 201
       /\ \A s \in DOMAIN reqs :
            (reqs[s].kind \in {"list", "listAll", "listRestaurant"} /\ reqs'[s] # reqs[s])
                => orders' = orders
      ]_vars

\* C20 witness: after a creation, a status update of a legacy order and a
\* listing, the legacy order and the created one are both stored.
C20_Witness ==
    /\ created # <<>>
    /\ \E o \in RangeOf(orders) : o.via = "legacy" /\ o.status = "accepted"
    /\ \E o \in RangeOf(orders) : o.via = "post"
    /\ \E r \in Answered("list") : r.code = 200 /\ Len(r.out) = 2

\* the seven statuses of the life of an order
Lifecycle == StatusEnum \ {NONE}

\* C21 as stated: every stored status is one of the seven values of the
\* lifecycle, and once the status of an order is cancelled no step changes it.
C21_CancelledIsTerminal ==
    /\ [](\A o \in RangeOf(orders) : o.status \in Lifecycle)
    /\ [][\A i \in 1..Len(orders) :
             orders[i].status = "cancelled" => orders'[i].status = "cancelled"]_vars

\* C22: the order a create request inserts has status pending in the step
\* that inserts it, and the document of every create request is built with
\* status pending, whatever status the body carries.
C22_InsertedPending ==
    [][/\ Len(orders') > Len(orders) =>
             /\ orders'[Len(orders')].status = "pending"
             /\ orders'[Len(orders')].via = "post"
       /\ \A s \in DOMAIN reqs :
             (reqs'[s].kind = "create" /\ reqs'[s].doc # NoOrder) =>
                 reqs'[s].doc.status = "pending"
      ]_vars

\* C22 witness: a request whose body carries status delivered has been
\* answered 201 and its order is stored as pending.
C22_Witness ==
    \E r \in Answered("create") :
        /\ r.code = 201 /\ r.body.status = "delivered"
        /\ \E o \in Stored(r.doc._id) : o.status = "pending" /\ o.via = "post"

\* the orders stored under the given id, in or out of the caller's scope
ExistsById(r) == {o \in RangeOf(r.seen) : o._id \in {StrId(r.param), OidOf(r.param)}}

\* C23 as stated: a status update whose store calls do not throw is answered
\* 403 to a superAdmin, 400 without a status, 403 to a caller of another
\* role or out of the scope of an existing order, 404 when no order has the
\* id, and 200 otherwise.
C23_WrongScopeForbidden ==
    \A r \in Answered("patch") :
        (r.profile.exists /\ r.threw = NONE) =>
            r.code = IF r.profile.role = "superAdmin" THEN 403
                     ELSE IF r.status = NONE THEN 400
                     ELSE IF r.profile.role \notin {"campusAdmin", "restaurantManager"} THEN 403
                     ELSE IF ExistsById(r) = {} THEN 404
                     ELSE IF ScopedById(r) = {} THEN 403
                     ELSE 200

\* C24 as stated: the order a create request has stored either has no
\* restaurantNames field or has one that is a non-empty list of pairwise
\* distinct, trimmed, non-blank names, each the trimmed form of a supplied one.
C24_NamesNeverEmpty ==
    \A r \in Answered("create") :
        (r.code = 201 /\ r.doc \in RangeOf(orders) /\ r.doc.hasRestaurantNames) =>
            LET names == r.doc.restaurantNames
            IN /\ names # <<>>
               /\ \A k, l \in 1..Len(names) : k # l => names[k] # names[l]
               /\ \A k \in 1..Len(names) :
                     /\ names[k] # "" /\ Trim(names[k]) = names[k]
                     /\ \E i \in 1..Len(r.body.restaurantNames) :
                            names[k] = Trim(r.body.restaurantNames[i])

OrderKinds == {"create", "list", "listAll", "patch", "listRestaurant"}

\* no handler has run for the request: nothing of the store was read or
\* written on its behalf and no service was called
Untouched(r) ==
    /\ r.profile = NoDoc /\ r.seen = <<>> /\ r.out = <<>>
    /\ r.touched = NoOrder /\ r.doc = NoOrder
    /\ ~r.called /\ ~r.looked

\* C25: a request to an order endpoint without a header, without the Bearer
\* prefix or with a credential the identity provider rejects never gets past
\* verifyFirebaseToken and is answered 401; one whose subject has no profile
\* or an unrecognized role never gets past loadUserProfile and is answered
\* 403 (500 when the profile store fails); for neither does a handler run;
\* a request for which a handler runs carried an accepted credential and has
\* a profile with one of the four roles.
C25_HandlersBehindAuth ==
    \A r \in Requests :
        r.kind \in OrderKinds =>
            /\ r.hdr # "ok" =>
                  /\ r.pc \in {"auth", "done"} /\ Untouched(r)
                  /\ r.pc = "done" => r.code = 401
                  /\ r.pc = "auth" => r.hdr = "rejected"
            /\ (r.hdr = "ok" /\ (~profiles[r.uid].exists
                                  \/ profiles[r.uid].role \notin
                                        {"user", "campusAdmin", "superAdmin", "restaurantManager"})) =>
                  /\ r.pc \in {"auth", "profile", "done"} /\ Untouched(r)
                  /\ r.pc = "done" => (r.code = 403 \/ (r.code = 500 /\ r.threw = "fault"))
            /\ (r.pc \notin {"auth", "profile", "done"} \/ ~Untouched(r)) =>
                  /\ r.hdr = "ok" /\ r.profile.exists
                  /\ r.profile.role \in {"user", "campusAdmin", "superAdmin", "restaurantManager"}

\* C25 witness: a status update for the id of a stored order, sent with an
\* accepted credential whose subject has a profile of an unrecognized role,
\* has been answered 403 and the order is as it was.
C25_Witness ==
    \E r \in Answered("patch") :
        /\ r.hdr = "ok" /\ profiles[r.uid].exists /\ profiles[r.uid].role = "guest"
        /\ r.status = "accepted" /\ r.code = 403
        /\ \E o \in RangeOf(orders) : o._id = StrId(r.param) /\ o.status = "pending"

\* the steps of a create request, in the order of the handler: each pc with
\* the pcs that may follow it
StepsAfter(pc) ==
    CASE pc = "idle" -> {"auth", "done"}
      [] pc = "auth" -> {"profile", "done"}
      [] pc = "profile" -> {"connect", "recaptcha", "insert", "done"}
      [] pc = "connect" -> {"recaptcha", "insert", "done"}
      [] pc = "recaptcha" -> {"insert", "done"}
      [] pc = "insert" -> {"done"}
      [] OTHER -> {"idle"}

\* the answer of a create request none of whose store calls threw: the
\* error of the first step that fails, in the order identity, profile, human
\* verification, campus, fields
FirstFailure(r) ==
    IF r.hdr # "ok" THEN 401
    ELSE IF ~r.profile.exists THEN 403
    ELSE IF r.verdict = "failed" THEN 400
    ELSE IF CampusMismatch(r) THEN 403
    ELSE IF r.body.missing # {} THEN 400
    ELSE 201

\* C26: a create request goes through identity verification, profile load,
\* human verification, campus check, field check and insert in this order,
\* one at a time; the verification call is made only with a loaded profile,
\* the document is built and inserted only when every earlier step has
\* succeeded, nothing is decided while the verification call is pending, and
\* a request no store call of which threw is answered with the error of the
\* first failing step.
C26_StepsInOrder ==
    /\ [](\A r \in Requests :
            r.kind = "create" =>
                /\ r.called => (r.hdr = "ok" /\ r.profile.exists)
                /\ r.pc = "recaptcha" => (r.verdict = NONE /\ r.doc = NoOrder /\ r.code = 0)
                /\ r.doc # NoOrder =>
                      /\ r.hdr = "ok" /\ r.profile.exists
                      /\ r.called => r.verdict = "passed"
                      /\ ShouldVerify(r.body, secretConfigured) => r.called
                      /\ ~CampusMismatch(r) /\ r.body.missing = {}
                /\ (r.pc = "done" /\ r.threw = NONE) => r.code = FirstFailure(r))
    /\ [][\A s \in DOMAIN reqs :
             (reqs[s].kind = "create" /\ reqs'[s].pc # reqs[s].pc) =>
                 reqs'[s].pc \in StepsAfter(reqs[s].pc)]_vars

\* C26 witness: a request with a mismatched campus and without gender, whose
\* token the verification service accepted, has been answered 403.
C26_Witness ==
    \E r \in Answered("create") :
        /\ r.called /\ r.verdict = "passed"
        /\ r.body.campusId \in Campuses /\ r.body.campusId # r.profile.campusId
        /\ r.body.missing = {"gender"}
        /\ r.code = 403 /\ r.doc = NoOrder

\* C27 as stated: the document a status update answers 200 with carries the
\* status the request set, whatever other updates of the order interleave.
C27_ReturnsOwnStatus ==
    \A r \in Answered("patch") :
        r.code = 200 => (Len(r.out) = 1 /\ r.out[1].status = r.status)

\* C28 as stated: getDb constructs one MongoClient for the process, also
\* when several requests call it before a connection is established.
C28_SingleClient == clients <= 1

\* C29 as stated: a step of a status update changes at most one order, and
\* the document a status update answers 200 with is the order it changed,
\* also when the id matches two in-scope orders, one under each
\* interpretation.
C29_ReturnsUpdatedOrder ==
    /\ [][\A s \in DOMAIN reqs :
             (reqs[s].kind = "patch" /\ reqs'[s] # reqs[s]) => Cardinality(Changed) <= 1]_vars
    /\ [](\A r \in Answered("patch") :
             r.code = 200 => (Len(r.out) = 1 /\ r.out[1]._id = r.touched._id))

\* the profile may write reference data of campus c
Entitled(profile, c) ==
    \/ profile.role = "superAdmin"
    \/ profile.role = "campusAdmin" /\ profile.campusId = c

\* C30 as stated: a request that has updated or deleted a restaurant, or
\* created a menu item, was made with a superAdmin profile or with the
\* profile of the campusAdmin of the campus the record belongs to.
C30_EntitledWritesOnly ==
    \A r \in Requests :
        /\ (r.kind \in {"patchRestaurant", "deleteRestaurant"}
               /\ r.pc = "done" /\ r.code \in {200, 204}) =>
              Entitled(r.profile, r.found.campusId)
        /\ (r.kind = "createMenuItem" /\ r.pc = "done" /\ r.code = 201) =>
              Entitled(r.profile, r.body.campusId)

====
